---- MODULE Spec2Model ----
(***************************************************************************)
(* MouseWalk (Linux/X11): model of main_linux.py.                          *)
(*                                                                         *)
(* Units.  Velocities are integers in px/s, times are integers in ms and   *)
(* positions are integers in 1/1000 px, so that  pos += vel * dt  is exact.*)
(* A float result that is not an integer in these units (a division by     *)
(* sqrt(2), a hypot) is rounded to the nearest integer, as IEEE arithmetic *)
(* rounds to the nearest representable value.  Comparisons of quotients    *)
(* (the cosine test, the near-diagonal test) are cross-multiplied and are  *)
(* exact.                                                                  *)
(***************************************************************************)
EXTENDS Integers, Sequences, FiniteSets, TLC

VARIABLES
    args,               \* arguments of the pick_diagonal_velocity call under study
    ret,                \* the velocity it returned, NoRet before the call
    pc,                 \* where the process is: start, enter, burst, returned, monitor, done
    caller,             \* who called run_cursor_screensaver: main or monitor
    displayOpen,        \* xc.display is set
    opens,              \* XOpenDisplay calls that succeeded
    closes,             \* XCloseDisplay calls
    cursorForced,       \* the root window has the arrow cursor defined
    uncaught,           \* the exception that ended the process, "none" for a return
    threshold_seconds,
    idle_prev_ms,
    max_x, max_y,       \* 1/1000 px
    pos_x, pos_y,       \* 1/1000 px
    vel_x, vel_y,       \* px/s
    pointer,            \* the last coordinates given to set_cursor_pos in this burst
    hit,                \* edge flags of the last integrated frame
    prevHit,            \* edge flags of the frame before it
    quitSeen,           \* hotkey_quit_pressed has returned True
    frameInput,         \* the last frame's idle reading followed real user input
    lastPoll, prevPoll, \* the monitor's last two idle readings
    lastStarted, prevStarted    \* whether each of them started the animation

pickVars == <<args, ret>>

control == <<pc, uncaught, displayOpen, closes, cursorForced>>

burstLocals == <<idle_prev_ms, max_x, max_y, pos_x, pos_y, vel_x, vel_y, pointer, hit, prevHit>>

polls == <<lastPoll, prevPoll, lastStarted, prevStarted>>

progVars == <<pc, caller, displayOpen, opens, closes, cursorForced, uncaught, threshold_seconds,
              idle_prev_ms, max_x, max_y, pos_x, pos_y, vel_x, vel_y, pointer, hit, prevHit,
              quitSeen, frameInput, lastPoll, prevPoll, lastStarted, prevStarted>>

vars == <<args, ret, progVars>>

\* ---------------------------------------------------------------- bounds
MaxPrev == 5            \* previous-velocity components range over -MaxPrev..MaxPrev (plus the named ones)
MaxDim == 3             \* screen width and height range over 1..MaxDim pixels

\* ------------------------------------------------------ program constants
SearchRounds == 16
MinComp == 1
IdleTolerance == 50     \* ms
MaxDt == 50             \* ms
MinBounceSpeed == 150   \* px/s
Nudge == 1000           \* 1.0 px
Px == 1000              \* position units per pixel

\* ---------------------------------------------------------------- helpers
Abs(x) == IF x >= 0 THEN x ELSE -x

Max(a, b) == IF a >= b THEN a ELSE b

Min(a, b) == IF a <= b THEN a ELSE b

\* the largest r in lo..hi with r * r <= n, by bisection (lo * lo <= n < (hi + 1) * (hi + 1))
RECURSIVE SqrtBetween(_, _, _)
SqrtBetween(n, lo, hi) ==
    IF lo = hi THEN lo
    ELSE LET mid == (lo + hi + 1) \div 2
         IN  IF mid * mid <= n THEN SqrtBetween(n, mid, hi) ELSE SqrtBetween(n, lo, mid - 1)

\* sqrt(n) rounded to the nearest integer, given sqrt(n) <= top:
\* floor(sqrt(4n)) is 2k-1 or 2k exactly when k - 1/2 <= sqrt(n) < k + 1/2
RoundedSqrt(n, top) == (SqrtBetween(4 * n, 0, 2 * top) + 1) \div 2

\* value / sqrt(2), rounded to the nearest integer (value >= 0)
DivSqrt2(value) ==
    (SqrtBetween(2 * value * value, 0, 2 * value) + 1) \div 2

\* math.hypot, rounded to the nearest integer
Hypot(a, b) == RoundedSqrt(a * a + b * b, Abs(a) + Abs(b))

clamp(value, min_value, max_value) == Max(min_value, Min(value, max_value))

\* ------------------------------------------------ pick_diagonal_velocity
NoneSign == 0           \* Python None for s_prev, hx, hy

NoRet == <<0, 0>>

Comp(speed_mag) == DivSqrt2(Max(MinComp, speed_mag))

signf(v) == IF v >= 0 THEN 1 ELSE -1

\* prev_speed > 1e-6, for integer components
PrevMoving(prev_vx, prev_vy) == prev_vx * prev_vx + prev_vy * prev_vy > 0

\* abs(abs(prev_vx) - abs(prev_vy)) <= max(1.0, 0.05 * prev_speed)
NearDiagonal(prev_vx, prev_vy) ==
    LET d == Abs(Abs(prev_vx) - Abs(prev_vy))
    IN  d <= 1 \/ 400 * d * d <= prev_vx * prev_vx + prev_vy * prev_vy

SPrev(prev_vx, prev_vy) ==
    IF PrevMoving(prev_vx, prev_vy) /\ NearDiagonal(prev_vx, prev_vy)
    THEN signf(prev_vy) * signf(prev_vx)      \* quotient of two signs
    ELSE NoneSign

CandidatesPrevFirst(s_prev) ==
    IF s_prev # NoneSign THEN {<<s_prev, -s_prev>>} ELSE {<<1, -1>>, <<-1, 1>>}

\* the possible orders of the candidate list: s_prev moved to the end, or a shuffle
Candidates(s_prev) ==
    IF s_prev # NoneSign THEN {<<-s_prev, s_prev>>} ELSE {<<1, -1>>, <<-1, 1>>}

ForcedXSwapped(hit_left, hit_right) ==
    IF hit_left THEN -1 ELSE IF hit_right THEN 1 ELSE NoneSign

ForcedX(hit_left, hit_right) ==
    IF hit_left THEN 1 ELSE IF hit_right THEN -1 ELSE NoneSign

ForcedY(hit_top, hit_bottom) ==
    IF hit_top THEN 1 ELSE IF hit_bottom THEN -1 ELSE NoneSign

\* cos_sim = (prev . v) / (prev_speed * comp);  TRUE iff the candidate is kept,
\* i.e. not (prev_speed > 1e-6 and cos_sim <= -0.2)
AntiReversalOff(prev_vx, prev_vy, vx, vy, comp) == TRUE

AntiReversalOk(prev_vx, prev_vy, vx, vy, comp) ==
    \* vx and vy are +-comp, so cos_sim = e / prev_speed with e as below
    LET e == prev_vx * (vx \div comp) + prev_vy * (vy \div comp)
    IN  ~PrevMoving(prev_vx, prev_vy)
        \/ e >= 0
        \/ 25 * e * e < prev_vx * prev_vx + prev_vy * prev_vy

\* one pass of the body of "for s in candidates"; draw is random.choice([-1.0, 1.0]);
\* a carries the arguments and the local comp
TryCandidate(a, s, draw) ==
    LET hx == ForcedX(a.hit_left, a.hit_right)
        hy == ForcedY(a.hit_top, a.hit_bottom)
        hx_try == IF hx = NoneSign /\ hy = NoneSign THEN draw
                  ELSE IF hx = NoneSign THEN hy * s       \* hy / s, s = +-1
                  ELSE hx
        hy_try == IF hx = NoneSign /\ hy = NoneSign THEN s * draw
                  ELSE IF hx = NoneSign THEN hy
                  ELSE IF hy = NoneSign THEN s * hx
                  ELSE hy
        mismatch == hx # NoneSign /\ hy # NoneSign /\ hy_try * hx_try # s
        vx == hx_try * a.comp
        vy == hy_try * a.comp
    IN  IF mismatch \/ ~AntiReversalOk(a.prev_vx, a.prev_vy, vx, vy, a.comp)
        THEN NoRet
        ELSE <<vx, vy>>

\* one round of "for _ in range(16)": the returned velocity, or NoRet when
\* both candidates were skipped
RoundOutcomes(a) ==
    { LET first == TryCandidate(a, order[1], d1)
      IN  IF first # NoRet THEN first ELSE TryCandidate(a, order[2], d2) :
        order \in Candidates(SPrev(a.prev_vx, a.prev_vy)), d1 \in {-1, 1}, d2 \in {-1, 1} }

Fallback(a) ==
    LET hx == ForcedX(a.hit_left, a.hit_right)
        hy == ForcedY(a.hit_top, a.hit_bottom)
    IN  { <<x * a.comp, y * a.comp>> :
            x \in (IF hx # NoneSign THEN {hx} ELSE {-1, 1}),
            y \in (IF hy # NoneSign THEN {hy} ELSE {-1, 1}) }

\* the rounds draw independently from the same choices, so every round has
\* the same set of outcomes
RECURSIVE SearchFrom(_, _, _)
SearchFrom(rounds_left, a, outcomes) ==
    IF rounds_left = 0
    THEN Fallback(a)
    ELSE (outcomes \ {NoRet})
         \cup (IF NoRet \in outcomes THEN SearchFrom(rounds_left - 1, a, outcomes) ELSE {})

\* every velocity some outcome of the random choices makes the call return
pick_diagonal_velocity(speed_mag, hit_left, hit_right, hit_top, hit_bottom, prev_vx, prev_vy) ==
    LET a == [comp |-> Comp(speed_mag), hit_left |-> hit_left, hit_right |-> hit_right,
              hit_top |-> hit_top, hit_bottom |-> hit_bottom,
              prev_vx |-> prev_vx, prev_vy |-> prev_vy]
    IN  SearchFrom(SearchRounds, a, RoundOutcomes(a))

\* ------------------------------------------------------------ the program
NoHit == [left |-> FALSE, right |-> FALSE, top |-> FALSE, bottom |-> FALSE]

NoPointer == <<-9, -9>>

NoPoll == -1

\* What the environment of a run supplies:
\*   idle     readings of the idle counter, ms
\*   secs     int(args.minutes * 60.0)
\*   dims     screen widths and heights, px
\*   elapsed  now - prev_t, ms
\*   speeds   random.uniform(300.0, 700.0)
\* The process as a whole is explored on one small screen with all the idle
\* readings, the animation on all the screens with two readings.
ProcessEnv ==
    [idle |-> {0, 40, 100, 1500, 2500}, secs |-> {-60, 0, 2},
     dims |-> {2}, elapsed |-> {8}, speeds |-> {300}]

AnimEnv ==
    [idle |-> {100, 1500}, secs |-> {0},
     dims |-> 1..MaxDim, elapsed |-> {0, 2, 8, 60}, speeds |-> {300, 700}]

ProgInit ==
    /\ pc = "start" /\ caller = "main"
    /\ displayOpen = FALSE /\ opens = 0 /\ closes = 0
    /\ cursorForced = FALSE /\ uncaught = "none"
    /\ threshold_seconds = 1
    /\ idle_prev_ms = 0 /\ max_x = 0 /\ max_y = 0 /\ pos_x = 0 /\ pos_y = 0
    /\ vel_x = 0 /\ vel_y = 0
    /\ pointer = NoPointer /\ hit = NoHit /\ prevHit = NoHit
    /\ quitSeen = FALSE /\ frameInput = FALSE
    /\ lastPoll = NoPoll /\ prevPoll = NoPoll /\ lastStarted = FALSE /\ prevStarted = FALSE

Init ==
    /\ args = [speed_mag |-> 1, hit_left |-> FALSE, hit_right |-> FALSE, hit_top |-> FALSE,
               hit_bottom |-> FALSE, prev_vx |-> 0, prev_vy |-> 0]
    /\ ret = NoRet
    /\ ProgInit

\* sys.exit(main(...)): the exit status of the process once pc = "done"
ExitCode ==
    CASE uncaught \in {"none", "SystemExit"} -> 0
      [] uncaught = "KeyboardInterrupt" -> 130
      [] OTHER -> 1

\* int(round(p)) of a position in 1/1000 px: Python rounds halves to even
RoundPx(p) ==
    LET q == p \div Px
        r == p % Px
    IN  IF r < 500 THEN q
        ELSE IF r > 500 THEN q + 1
        ELSE IF q % 2 = 0 THEN q ELSE q + 1

\* X11Context.close: the cursor restore in it is wrapped in try/except
Close(cf) ==
    IF ~displayOpen
    THEN cursorForced' = cf /\ UNCHANGED <<displayOpen, closes>>
    ELSE \E undefine_ok \in BOOLEAN :
            /\ cursorForced' = (IF undefine_ok THEN FALSE ELSE cf)
            /\ displayOpen' = FALSE
            /\ closes' = closes + 1

MainWithoutFinally(exc, cf) ==
    /\ IF exc = "none" THEN Close(cf) ELSE cursorForced' = cf /\ UNCHANGED <<displayOpen, closes>>
    /\ uncaught' = exc
    /\ pc' = "done"

\* main's "finally: xc.close()", run when main returns 0 (exc = "none") or
\* when exc propagates out of it; cf is the cursor override at that point
MainFinally(exc, cf) ==
    /\ Close(cf)
    /\ uncaught' = exc
    /\ pc' = "done"

\* an exception leaves run_cursor_screensaver: monitor_idle_and_run catches
\* KeyboardInterrupt only, prints and returns, and main returns 0
PropagateFromBurst(exc, cf) ==
    IF caller = "monitor" /\ exc = "KeyboardInterrupt"
    THEN MainFinally("none", cf)
    ELSE MainFinally(exc, cf)

\* the "finally: xc.restore_cursor()" of the animation loop, entered with the
\* pending exception exc ("none" for the break); restore_cursor may raise
LeaveTry(exc) ==
    \E restore_ok \in BOOLEAN :
        IF restore_ok
        THEN IF exc = "none"
             THEN /\ pc' = "returned"
                  /\ cursorForced' = FALSE
                  /\ UNCHANGED <<uncaught, displayOpen, closes>>
             ELSE PropagateFromBurst(exc, FALSE)
        ELSE PropagateFromBurst("CosmeticError", cursorForced)

ThresholdMetInMs(idle_ms, threshold) == idle_ms >= threshold

\* get_idle_seconds(xc) >= threshold_seconds
ThresholdMet(idle_ms, threshold) == idle_ms >= 1000 * threshold

\* main: open the display, parse the arguments, start the first burst
MainStart(env) ==
    /\ pc = "start"
    /\ \E open_ok \in BOOLEAN, secs \in env.secs :
        IF ~open_ok
        THEN /\ pc' = "done" /\ uncaught' = "OSError"
             /\ UNCHANGED <<displayOpen, opens, closes, cursorForced, threshold_seconds, caller>>
        ELSE /\ displayOpen' = TRUE /\ opens' = opens + 1
             /\ threshold_seconds' = Max(1, secs)
             /\ caller' = "main"
             /\ pc' = "enter"
             /\ UNCHANGED <<closes, cursorForced, uncaught>>
    /\ UNCHANGED <<args, ret, burstLocals, quitSeen, frameInput, polls>>

\* run_cursor_screensaver up to its "try"
BurstEnter(env) ==
    /\ pc = "enter"
    /\ \/ \* query_idle_ms raises
          PropagateFromBurst("OSError", cursorForced) /\ UNCHANGED burstLocals
       \/ \* force_arrow_cursor raises
          PropagateFromBurst("CosmeticError", cursorForced) /\ UNCHANGED burstLocals
       \/ \E idle_ms \in env.idle, width \in env.dims, height \in env.dims, speed \in env.speeds :
          \E start_x \in 0..(width - 1), start_y \in 0..(height - 1) :
          \E v \in pick_diagonal_velocity(speed, FALSE, FALSE, FALSE, FALSE, 0, 0) :
            /\ idle_prev_ms' = idle_ms
            /\ max_x' = (width - 1) * Px /\ max_y' = (height - 1) * Px
            /\ pos_x' = start_x * Px /\ pos_y' = start_y * Px
            /\ vel_x' = v[1] /\ vel_y' = v[2]
            /\ hit' = NoHit /\ prevHit' = NoHit
            /\ pointer' = NoPointer
            /\ cursorForced' = TRUE
            /\ pc' = "burst"
            /\ UNCHANGED <<uncaught, displayOpen, closes>>
    /\ frameInput' = FALSE
    /\ UNCHANGED <<args, ret, caller, opens, threshold_seconds, quitSeen, polls>>

KeepVelocity(speed_mag, hit_left, hit_right, hit_top, hit_bottom, prev_vx, prev_vy) ==
    {<<prev_vx, prev_vy>>}

\* the velocity chosen after an edge hit
Bounce(speed_mag, hit_left, hit_right, hit_top, hit_bottom, prev_vx, prev_vy) ==
    pick_diagonal_velocity(speed_mag, hit_left, hit_right, hit_top, hit_bottom, prev_vx, prev_vy)

\* the position after the edge-resolution pass, on one axis
Resolve(p, hit_min, hit_max, max_p) ==
    LET c == clamp(p, 0, max_p)
        l == IF hit_min THEN 0 + Nudge ELSE c
    IN  IF hit_max THEN max_p - Nudge ELSE l

\* the frame of run_cursor_screensaver is gone: its locals are dropped
DropLocals ==
    /\ idle_prev_ms' = 0 /\ max_x' = 0 /\ max_y' = 0 /\ pos_x' = 0 /\ pos_y' = 0
    /\ vel_x' = 0 /\ vel_y' = 0
    /\ pointer' = NoPointer /\ hit' = NoHit /\ prevHit' = NoHit

\* one iteration of the animation loop, with the finally clause when it is left
AnimFrame(env) ==
    /\ pc = "burst"
    /\ \/ \* hotkey_quit_pressed() is True: sys.exit(0)
          /\ quitSeen' = TRUE /\ frameInput' = FALSE
          /\ LeaveTry("SystemExit")
          /\ DropLocals
       \/ \* query_idle_ms raises
          /\ LeaveTry("OSError")
          /\ frameInput' = FALSE
          /\ DropLocals /\ UNCHANGED quitSeen
       \/ \E idle_ms \in env.idle :
            \* a reading below the previous one is the idle counter reset by real input
            /\ frameInput' = (idle_ms < idle_prev_ms)
            /\ UNCHANGED quitSeen
            /\ IF idle_ms + IdleTolerance < idle_prev_ms
               THEN /\ LeaveTry("none")
                    /\ DropLocals
               ELSE \E elapsed \in env.elapsed :
                    LET dt == Max(0, Min(MaxDt, elapsed))
                        x1 == pos_x + vel_x * dt
                        y1 == pos_y + vel_y * dt
                        hit_left == x1 < 0
                        hit_right == x1 > max_x
                        hit_top == y1 < 0
                        hit_bottom == y1 > max_y
                        any == hit_left \/ hit_right \/ hit_top \/ hit_bottom
                        x2 == IF any THEN Resolve(x1, hit_left, hit_right, max_x) ELSE x1
                        y2 == IF any THEN Resolve(y1, hit_top, hit_bottom, max_y) ELSE y1
                    IN  \/ /\ idle_prev_ms' = idle_ms
                           /\ pos_x' = x2 /\ pos_y' = y2
                           /\ \E v \in (IF any
                                        THEN Bounce(Max(MinBounceSpeed, Hypot(vel_x, vel_y)),
                                                    hit_left, hit_right, hit_top, hit_bottom, vel_x, vel_y)
                                        ELSE {<<vel_x, vel_y>>}) :
                                   vel_x' = v[1] /\ vel_y' = v[2]
                           /\ prevHit' = hit
                           /\ hit' = [left |-> hit_left, right |-> hit_right,
                                      top |-> hit_top, bottom |-> hit_bottom]
                           /\ pointer' = <<RoundPx(x2), RoundPx(y2)>>
                           /\ UNCHANGED <<max_x, max_y>>
                           /\ UNCHANGED control
                        \/ \* an interrupt signal ends time.sleep(frame_dt)
                           /\ LeaveTry("KeyboardInterrupt")
                           /\ DropLocals
    /\ UNCHANGED <<args, ret, caller, opens, threshold_seconds, polls>>

\* the burst returned: main goes on to monitor_idle_and_run, the monitor
\* sleeps 0.25 s (which an interrupt signal may end) and polls again
AfterBurst(env) ==
    /\ pc = "returned"
    /\ \/ pc' = "monitor" /\ UNCHANGED <<uncaught, displayOpen, closes, cursorForced>>
       \/ caller = "monitor" /\ MainFinally("none", cursorForced)
    /\ frameInput' = FALSE
    /\ UNCHANGED <<args, ret, caller, opens, threshold_seconds, burstLocals, quitSeen, polls>>

\* one iteration of the idle monitor's loop
MonitorIter(env) ==
    /\ pc = "monitor"
    /\ \/ \* hotkey_quit_pressed() is True: sys.exit(0)
          /\ quitSeen' = TRUE
          /\ MainFinally("SystemExit", cursorForced)
          /\ UNCHANGED <<caller, polls>>
       \/ \* query_idle_ms raises
          /\ MainFinally("OSError", cursorForced)
          /\ UNCHANGED <<caller, polls, quitSeen>>
       \/ \E idle_ms \in env.idle :
            /\ prevPoll' = lastPoll /\ lastPoll' = idle_ms
            /\ prevStarted' = lastStarted
            /\ UNCHANGED quitSeen
            /\ IF ThresholdMet(idle_ms, threshold_seconds)
               THEN /\ lastStarted' = TRUE
                    /\ caller' = "monitor"
                    /\ pc' = "enter"
                    /\ UNCHANGED <<uncaught, displayOpen, closes, cursorForced>>
               ELSE /\ lastStarted' = FALSE
                    /\ UNCHANGED caller
                    \* time.sleep(1.0), which an interrupt signal may end
                    /\ \/ pc' = "monitor" /\ UNCHANGED <<uncaught, displayOpen, closes, cursorForced>>
                       \/ MainFinally("none", cursorForced)
    /\ frameInput' = FALSE
    /\ UNCHANGED <<args, ret, opens, threshold_seconds, burstLocals>>

Next ==
    \/ MainStart(ProcessEnv)
    \/ BurstEnter(ProcessEnv)
    \/ AnimFrame(ProcessEnv)
    \/ AfterBurst(ProcessEnv)
    \/ MonitorIter(ProcessEnv)

Spec == Init /\ [][Next]_vars

NextAnim ==
    \/ MainStart(AnimEnv)
    \/ BurstEnter(AnimEnv)
    \/ AnimFrame(AnimEnv)
    \/ AfterBurst(AnimEnv)
    \/ MonitorIter(AnimEnv)

SpecAnim == Init /\ [][NextAnim]_vars

\* ------------------------------------------------- claims on the program
InBurst == pc = "burst"

Edges == {"left", "right", "top", "bottom"}

\* C4 (as stated): for every screen of width, height >= 1, after each frame's
\* edge-resolution pass the position, and each coordinate written to the
\* pointer, lies within [0, width-1] x [0, height-1]; an overshoot of an edge
\* ends exactly 1 pixel inside that edge.
C4_AsStated ==
    InBurst =>
        /\ 0 <= pos_x /\ pos_x <= max_x
        /\ 0 <= pos_y /\ pos_y <= max_y
        /\ pointer # NoPointer =>
            /\ 0 <= pointer[1] /\ pointer[1] * Px <= max_x
            /\ 0 <= pointer[2] /\ pointer[2] * Px <= max_y
        /\ hit.right => pos_x = max_x - Nudge
        /\ hit.bottom => pos_y = max_y - Nudge

\* C5 (as stated): once the quit-hotkey poll has returned true, in either
\* loop, the process has terminated with exit code 0 in that same iteration
\* and the cursor-shape override has been restored.
C5_AsStated ==
    quitSeen => (pc = "done" /\ ExitCode = 0 /\ ~cursorForced)

\* C6 (as stated): in every run from process start the Animation Loop runs
\* only after a poll whose idle time reached the threshold.
C6_AsStated ==
    pc \in {"enter", "burst"} => (lastPoll # NoPoll /\ lastPoll >= 1000 * threshold_seconds)

\* C6 (amended): apart from the one burst main starts unconditionally at
\* process start, before any poll, the Animation Loop is started exactly at the
\* monitor polls whose idle time in seconds is >= the threshold; with
\* threshold 1 s and readings 0 ms then 1500 ms the monitor starts it exactly
\* once in the two polls, at the second.
C6_MonitorStarts ==
    /\ lastPoll # NoPoll => (lastStarted <=> lastPoll >= 1000 * threshold_seconds)
    /\ prevPoll # NoPoll => (prevStarted <=> prevPoll >= 1000 * threshold_seconds)
    /\ (pc \in {"enter", "burst", "returned"} /\ caller = "monitor") => lastStarted
    /\ (pc \in {"enter", "burst", "returned"} /\ caller = "main") => lastPoll = NoPoll
    /\ (threshold_seconds = 1 /\ prevPoll = 0 /\ lastPoll = 1500) => (~prevStarted /\ lastStarted)

C6_Witness ==
    /\ threshold_seconds = 1 /\ prevPoll = 0 /\ lastPoll = 1500
    /\ ~prevStarted /\ lastStarted
    /\ pc = "burst" /\ caller = "monitor"

\* C7 (as stated): real user input between two frame readings always ends the
\* burst at the next idle check: the loop has returned, the process is alive
\* and control is on its way back to idle monitoring.
C7_AsStated ==
    frameInput => pc = "returned"

\* C8: after a successful open the display is closed exactly once on every
\* termination path, and while the process is in either loop the display is
\* open and has not been closed.
C8_ClosedExactlyOnce ==
    /\ opens <= 1 /\ closes <= opens
    /\ pc \in {"enter", "burst", "returned", "monitor"} => (displayOpen /\ opens = 1 /\ closes = 0)
    /\ (pc = "done" /\ opens = 1) => (closes = 1 /\ ~displayOpen)

C8_Witness ==
    pc = "done" /\ opens = 1 /\ closes = 1 /\ uncaught = "OSError" /\ lastPoll # NoPoll

\* C9 (as stated): a failure of a cosmetic adapter operation is always
\* swallowed: it never ends the process.
C9_AsStated ==
    uncaught # "CosmeticError"

\* C10: an edge hit in one frame is not hit in the frame that follows it.
C10_NoRepeatedHit ==
    \A e \in Edges : ~(prevHit[e] /\ hit[e])

C10_Witness ==
    /\ InBurst
    /\ prevHit.right /\ prevHit.bottom
    /\ ~hit.right /\ ~hit.bottom
    /\ vel_x < 0 /\ vel_y < 0
    /\ pos_x < max_x - Nudge

\* ------------------------------------------- the selector called directly
SpeedVals == {-5, 0, 1, 150, 300}

PrevVals == (-MaxPrev..MaxPrev) \cup {-100, -75, -30, -28, 28, 30, 75, 100}

ArgSets ==
    [speed_mag : SpeedVals, hit_left : BOOLEAN, hit_right : BOOLEAN,
     hit_top : BOOLEAN, hit_bottom : BOOLEAN, prev_vx : PrevVals, prev_vy : PrevVals]

InitPick ==
    /\ args \in ArgSets
    /\ ret = NoRet
    /\ ProgInit

PickCall ==
    /\ ret = NoRet
    /\ ret' \in pick_diagonal_velocity(args.speed_mag, args.hit_left, args.hit_right,
                                       args.hit_top, args.hit_bottom, args.prev_vx, args.prev_vy)
    /\ UNCHANGED <<args, progVars>>

NextPick == PickCall

SpecPick == InitPick /\ [][NextPick]_vars

Returned == ret # NoRet

NoEdgeHit == ~args.hit_left /\ ~args.hit_right /\ ~args.hit_top /\ ~args.hit_bottom

\* C1 (as stated): every hit edge forces the sign of its axis away from that
\* edge, for any combination of the four flags.
C1_AsStated ==
    Returned =>
        /\ args.hit_left => ret[1] > 0
        /\ args.hit_right => ret[1] < 0
        /\ args.hit_top => ret[2] > 0
        /\ args.hit_bottom => ret[2] < 0

\* C1 (amended): hit_left forces vx > 0 and hit_top forces vy > 0; hit_right
\* forces vx < 0 unless hit_left is also set, hit_bottom forces vy < 0 unless
\* hit_top is also set (left and top win); left and top together give vx > 0, vy > 0.
C1_ForcedSigns ==
    Returned =>
        /\ args.hit_left => ret[1] > 0
        /\ (args.hit_right /\ ~args.hit_left) => ret[1] < 0
        /\ args.hit_top => ret[2] > 0
        /\ (args.hit_bottom /\ ~args.hit_top) => ret[2] < 0

C1_Witness ==
    Returned /\ args.hit_left /\ args.hit_top /\ ret[1] > 0 /\ ret[2] > 0 /\ args.speed_mag = -5

\* sign(vy) / sign(vx) of a returned velocity (both components are non-zero)
Handedness(v) == signf(v[2]) * signf(v[1])

ExactDiagonal == Abs(args.prev_vx) = Abs(args.prev_vy) /\ args.prev_vx # 0

PrevSpeedSq == args.prev_vx * args.prev_vx + args.prev_vy * args.prev_vy

\* C2 (as stated): near-diagonal previous velocity and no edge hit: the
\* returned velocity has the same handedness as the previous one.
C2_AsStated ==
    (Returned /\ NoEdgeHit /\ SPrev(args.prev_vx, args.prev_vy) # NoneSign)
        => Handedness(ret) = SPrev(args.prev_vx, args.prev_vy)

\* C2 (amended): no edge hit and the previous velocity exactly diagonal, or
\* near-diagonal with magnitude at least 6 px/s: the returned velocity has the
\* OPPOSITE handedness, for every outcome of the random choices; previous
\* (+c,+c) always yields sign(vy) # sign(vx).
C2_HandednessFlips ==
    (Returned /\ NoEdgeHit /\ SPrev(args.prev_vx, args.prev_vy) # NoneSign
        /\ (ExactDiagonal \/ PrevSpeedSq >= 36))
        => /\ Handedness(ret) = -SPrev(args.prev_vx, args.prev_vy)
           /\ (args.prev_vx > 0 /\ args.prev_vy = args.prev_vx) => signf(ret[2]) # signf(ret[1])

C2_Witness ==
    /\ Returned /\ NoEdgeHit
    /\ args.prev_vx = 100 /\ args.prev_vy = 100
    /\ ret[1] < 0 /\ ret[2] > 0

\* the diagonal directions
Diagonals == {-1, 1} \X {-1, 1}

\* prev . h, for a diagonal direction h
DotDir(h) == args.prev_vx * h[1] + args.prev_vy * h[2]

\* cosine similarity of prev and h above -0.2:  prev.h / (|prev| * sqrt(2)) > -1/5
CosineAbove(h) == DotDir(h) >= 0 \/ 25 * DotDir(h) * DotDir(h) < 2 * PrevSpeedSq

\* the selector's own measure, prev.v / (|prev| * comp) = sqrt(2) * cosine, above -0.2
CosSimAbove(h) == DotDir(h) >= 0 \/ 25 * DotDir(h) * DotDir(h) < PrevSpeedSq

DirOf(v) == <<signf(v[1]), signf(v[2])>>

\* h points away from every hit edge
AwayFromWalls(h) ==
    /\ args.hit_left => h[1] > 0
    /\ args.hit_right => h[1] < 0
    /\ args.hit_top => h[2] > 0
    /\ args.hit_bottom => h[2] < 0

\* h has the signs the selector forces (left wins over right, top over bottom)
HasForcedSigns(h) ==
    /\ args.hit_left => h[1] > 0
    /\ (args.hit_right /\ ~args.hit_left) => h[1] < 0
    /\ args.hit_top => h[2] > 0
    /\ (args.hit_bottom /\ ~args.hit_top) => h[2] < 0

\* C3 (as stated): non-zero previous velocity, and some diagonal that
\* satisfies the wall-forced signs has cosine similarity > -0.2 to it: the
\* returned velocity has cosine similarity > -0.2, whatever the random choices.
C3_AsStated ==
    (Returned /\ PrevSpeedSq > 0 /\ \E h \in Diagonals : AwayFromWalls(h) /\ CosineAbove(h))
        => CosineAbove(DirOf(ret))

\* C3 (amended): non-zero previous velocity, and at least one edge hit or the
\* previous velocity exactly diagonal: if some diagonal with the forced signs
\* has cos_sim > -0.2, cos_sim being the selector's measure
\* prev.v / (|prev| * comp), then the returned velocity has cos_sim > -0.2 for
\* every outcome of the random choices; previous (100,100) with only
\* hit_right returns vx < 0 and vy > 0.
C3_AntiReversal ==
    /\ (Returned /\ PrevSpeedSq > 0 /\ (~NoEdgeHit \/ ExactDiagonal)
          /\ \E h \in Diagonals : HasForcedSigns(h) /\ CosSimAbove(h))
        => CosSimAbove(DirOf(ret))
    /\ (Returned /\ args.prev_vx = 100 /\ args.prev_vy = 100
          /\ args.hit_right /\ ~args.hit_left /\ ~args.hit_top /\ ~args.hit_bottom)
        => (ret[1] < 0 /\ ret[2] > 0)

C3_Witness ==
    /\ Returned
    /\ args.prev_vx = 100 /\ args.prev_vy = 100
    /\ args.hit_right /\ ~args.hit_left /\ ~args.hit_top /\ ~args.hit_bottom
    /\ ret[1] < 0 /\ ret[2] > 0

====
